---- MODULE Spec2Model ----
(***************************************************************************)
(* Machine translation providers of weblate/trans/machine/microsoft.py:    *)
(* the bearer providers MicrosoftTranslation and                           *)
(* MicrosoftCognitiveTranslation with their cached access token, and       *)
(* MicrosoftTerminologyService with its SOAP requests and translate().     *)
(*                                                                         *)
(* Spec    : several callers use one bearer provider instance at once.     *)
(* SpecSeq : one caller uses a bearer provider, call after call.           *)
(* SpecTerm: calls of MicrosoftTerminologyService.translate.               *)
(* SpecConstruct: a bearer provider is constructed under any settings and  *)
(*           then used as in SpecSeq.                                      *)
(* SpecSoap: direct calls of soap_req, json_req, soap_status_req and       *)
(*           json_status_req of the terminology service.                   *)
(* SpecCodec: calls of convert_language of the bearer providers.           *)
(* SpecCalls: one provider of any of the three classes, used call after    *)
(*           call.                                                         *)
(***************************************************************************)
EXTENDS Integers, Sequences, FiniteSets, TLC

(* ------------------------------ bounds -------------------------------- *)
\* callers that share one provider instance
NumThreads == 2
\* the clock runs from 0 to MaxTime (minutes)
MaxTime == 10
\* authentication requests sent in one run
MaxAuth == 3

\* entries of the longest GetTranslationsResult list the service answers
MaxEntries == 2

(* -------------------------- program constants ------------------------- *)
\* TOKEN_EXPIRY = timedelta(minutes=9)
TOKEN_EXPIRY == 9
\* text[:5000] in MicrosoftTranslation.download_translations
MS_TEXT_LIMIT == 5000
\* max_result = 5 in soap_req
MAX_RESULT == 5

(* ------------------------------ values -------------------------------- *)
\* Python's None and a held value: an optional is a tuple of length 0 or 1
None == <<>>
Some(v) == <<v>>
Val(o) == o[1]

Threads == 1 .. NumThreads
SeqThreads == {1}
Providers == {"MicrosoftTranslation", "MicrosoftCognitiveTranslation"}

VARIABLES
  provider,        \* the class of the provider instance
  _access_token,   \* self._access_token: None or the token held
  _token_expiry,   \* self._token_expiry: None or an instant
  now,             \* timezone.now(), in minutes
  pc,              \* per caller: "idle", "read" (request built, access_token
                   \* about to be read), "wait" (authentication request in
                   \* flight), "expiry" (between the two assignments)
  sawNone,         \* per caller: its read found self._access_token None
  depth,           \* per caller: access_token reads nested in this call
  data,            \* per caller: the authentication response
  req,             \* per caller: the request as authenticate() decorated it
  res,             \* per caller: outcome of its latest finished call
  lastSeen,        \* <<_access_token, _token_expiry, lease>> as the latest
                   \* evaluation of the condition of access_token found them
  authCount,       \* authentication requests sent so far
  authBearer,      \* Authorization header of the latest authentication request
  lease,           \* the expiry assigned together with the held token, if any
  installedAt,     \* the instant the held credential was installed
  tpc,             \* translate of the terminology service: "idle", "called"
                   \* (arguments given), "done" (returned or raised)
  call,            \* the arguments of the translate call
  srv,             \* what the remote service answers during the call
  langCache,       \* supported_languages as memoized: None or a set of codes
  t_source,        \* source as translate last assigned it, if it did
  t_language,      \* language as translate last assigned it, if it did
  path,            \* the branch of translate the call took
  result,          \* what translate returned or raised
  net,             \* the requests sent during the call, in order
  reports,         \* the exceptions given to report_error during the call
  settings,        \* django.conf.settings: the values of the configuration
  instance,        \* the provider object: "new" (__init__ not yet run),
                   \* "constructed", or "MissingConfiguration" (__init__ raised)
  spc,             \* a direct call of a request function of the terminology
                   \* service: "idle", "called", "done"
  s_call,          \* the function called, its arguments and what urlopen does
  s_out,           \* what the function raised or returned and what it sent
  c_language,      \* the argument of the latest convert_language, if any
  c_result         \* what it returned

tokenVars == <<provider, _access_token, _token_expiry, now, pc, sawNone,
               depth, data, req, res, lastSeen, authCount, authBearer, lease,
               installedAt>>

termVars == <<tpc, call, srv, langCache, t_source, t_language, path, result,
              net, reports>>

confVars == <<settings, instance>>

soapVars == <<spc, s_call, s_out>>

codecVars == <<c_language, c_result>>

auxVars == <<confVars, soapVars, codecVars>>

vars == <<tokenVars, termVars, auxVars>>

(* ------------------------- the token cache ---------------------------- *)
\* is_token_expired: self._token_expiry <= timezone.now()
IsTokenExpiredStrict(expiry, t) == Val(expiry) < t
IsTokenExpired(expiry, t) == Val(expiry) <= t

\* the condition of access_token: no token held, or the held one expired
NeedsTokenNoExpiry(token, expiry, t) == token = None
NeedsToken(token, expiry, t) == token = None \/ IsTokenExpired(expiry, t)

\* 'error' in data
HasErrorNever(d) == FALSE
HasError(d) == d.kind = "json" /\ d.error

\* skip_auth=True of the authentication request
AuthSkipAuth == TRUE

\* json_req: the request is decorated by authenticate() unless skip_auth
JsonReqAuthenticates(skip_auth) == ~skip_auth

NoData == [kind |-> "none", error |-> FALSE, access_token |-> None]
NoReq == [bearer |-> None, fresh |-> FALSE]

\* the Authorization header authenticate() adds; fresh records whether the
\* instant of adding it lies before the expiry held at that instant
Decorated(token, expiry, t) ==
  [bearer |-> token, fresh |-> expiry # None /\ t < Val(expiry)]

\* what the authentication endpoint may answer to request number n
AuthResponses(p, n) ==
  {[kind |-> "raise", error |-> FALSE, access_token |-> None]}
  \cup (IF p = "MicrosoftTranslation"
          THEN {[kind |-> "json", error |-> TRUE, access_token |-> None],
                [kind |-> "json", error |-> FALSE, access_token |-> Some(n)]}
          ELSE {[kind |-> "raw", error |-> FALSE, access_token |-> Some(n)]})

\* the fields of an object that was constructed and not yet used
CacheInit ==
  /\ _access_token = None
  /\ _token_expiry = None
  /\ now = 0
  /\ pc = [t \in Threads |-> "idle"]
  /\ sawNone = [t \in Threads |-> FALSE]
  /\ depth = [t \in Threads |-> 0]
  /\ data = [t \in Threads |-> NoData]
  /\ req = [t \in Threads |-> NoReq]
  /\ res = [t \in Threads |-> "none"]
  /\ lastSeen = <<None, None, None>>
  /\ authCount = 0
  /\ authBearer = None
  /\ lease = None
  /\ installedAt = None

TokenInit ==
  /\ provider \in Providers
  /\ CacheInit

\* the clock advances
Tick ==
  /\ now < MaxTime
  /\ now' = now + 1
  /\ UNCHANGED <<termVars, auxVars, provider, _access_token, _token_expiry, pc, sawNone, depth,
                 data, req, res, lastSeen, authCount, authBearer, lease,
                 installedAt>>

\* A caller starts a request of the provider: json_req (without skip_auth)
\* builds the request and is about to call authenticate().
Call(t) ==
  /\ pc[t] = "idle"
  /\ JsonReqAuthenticates(FALSE)
  /\ pc' = [pc EXCEPT ![t] = "read"]
  /\ req' = [req EXCEPT ![t] = NoReq]
  /\ data' = [data EXCEPT ![t] = NoData]
  /\ depth' = [depth EXCEPT ![t] = 0]
  /\ UNCHANGED <<termVars, auxVars, provider, _access_token, _token_expiry, now, sawNone, res,
                 lastSeen, authCount, authBearer, lease, installedAt>>

\* authenticate() reads access_token: the condition is evaluated, and either
\* the held token is returned and attached to the request, which is sent, or
\* the authentication request is sent. timezone.now() is read once, by
\* is_token_expired; the statements up to add_header follow it within the same
\* minute of the clock, so they belong to this step. Other callers run
\* between the steps, and the clock advances between them.
ReadToken(t) ==
  /\ pc[t] = "read"
  /\ lastSeen' = <<_access_token, _token_expiry, lease>>
  /\ sawNone' = [sawNone EXCEPT ![t] = (_access_token = None)]
  /\ IF _access_token # None /\ _token_expiry = None
       THEN \* is_token_expired compares None with an instant: TypeError
            /\ res' = [res EXCEPT ![t] = "TypeError"]
            /\ pc' = [pc EXCEPT ![t] = "idle"]
            /\ depth' = [depth EXCEPT ![t] = 1]
            /\ UNCHANGED <<req, authCount, authBearer>>
       ELSE IF NeedsToken(_access_token, _token_expiry, now)
         THEN /\ authCount < MaxAuth
              /\ authCount' = authCount + 1
              /\ IF JsonReqAuthenticates(AuthSkipAuth)
                   THEN \* without skip_auth the authentication request would
                        \* itself call authenticate() and read access_token
                        /\ depth' = [depth EXCEPT ![t] = 2]
                        /\ authBearer' = _access_token
                   ELSE /\ depth' = [depth EXCEPT ![t] = 1]
                        /\ authBearer' = None
              /\ pc' = [pc EXCEPT ![t] = "wait"]
              /\ UNCHANGED <<req, res>>
         ELSE /\ req' = [req EXCEPT ![t] =
                           Decorated(_access_token, _token_expiry, now)]
              /\ res' = [res EXCEPT ![t] = "sent"]
              /\ pc' = [pc EXCEPT ![t] = "idle"]
              /\ depth' = [depth EXCEPT ![t] = 1]
              /\ UNCHANGED <<authCount, authBearer>>
  /\ UNCHANGED <<termVars, auxVars, provider, _access_token, _token_expiry, now, data, lease,
                 installedAt>>

\* The authentication request returns: json_req raises, or the response
\* carries an error, or self._access_token is assigned.
AuthResponse(t) ==
  /\ pc[t] = "wait"
  /\ \E d \in AuthResponses(provider, authCount) :
       /\ data' = [data EXCEPT ![t] = d]
       /\ IF d.kind = "raise"
            THEN /\ res' = [res EXCEPT ![t] = "TransportError"]
                 /\ pc' = [pc EXCEPT ![t] = "idle"]
                 /\ UNCHANGED <<_access_token, lease>>
            ELSE IF provider = "MicrosoftTranslation" /\ HasError(d)
              THEN /\ res' = [res EXCEPT ![t] = "MachineTranslationError"]
                   /\ pc' = [pc EXCEPT ![t] = "idle"]
                   /\ UNCHANGED <<_access_token, lease>>
              ELSE /\ _access_token' = d.access_token
                   /\ lease' = None
                   /\ pc' = [pc EXCEPT ![t] = "expiry"]
                   /\ UNCHANGED res
  /\ UNCHANGED <<termVars, auxVars, provider, _token_expiry, now, sawNone, depth, req, lastSeen,
                 authCount, authBearer, installedAt>>

\* self._token_expiry = timezone.now() + TOKEN_EXPIRY, then the token held is
\* returned and attached to the request, which is sent (within the minute of
\* that reading of the clock). A caller that reads between AuthResponse and
\* this step finds the new token beside the previous expiry.
WriteExpirySkipped(t) ==
  /\ pc[t] = "expiry"
  /\ installedAt' = Some(now)
  /\ req' = [req EXCEPT ![t] = Decorated(_access_token, _token_expiry, now)]
  /\ res' = [res EXCEPT ![t] = "sent"]
  /\ pc' = [pc EXCEPT ![t] = "idle"]
  /\ UNCHANGED <<termVars, auxVars, provider, _access_token, _token_expiry,
                 lease, now, sawNone, depth, data, lastSeen, authCount,
                 authBearer>>
WriteExpiry(t) ==
  /\ pc[t] = "expiry"
  /\ _token_expiry' = Some(now + TOKEN_EXPIRY)
  /\ lease' = IF _access_token = data[t].access_token
                THEN Some(now + TOKEN_EXPIRY) ELSE lease
  /\ installedAt' = Some(now)
  /\ req' = [req EXCEPT ![t] = Decorated(_access_token, _token_expiry', now)]
  /\ res' = [res EXCEPT ![t] = "sent"]
  /\ pc' = [pc EXCEPT ![t] = "idle"]
  /\ UNCHANGED <<termVars, auxVars, provider, _access_token, now, sawNone, depth, data, lastSeen,
                 authCount, authBearer>>

(* --------------------------- construction ----------------------------- *)
\* the values settings may hold for the three keys the providers read
AllSettings ==
  [MT_MICROSOFT_ID : {None, Some("id")},
   MT_MICROSOFT_SECRET : {None, Some("secret")},
   MT_MICROSOFT_COGNITIVE_KEY : {None, Some("key")}]

\* ms_supported of the class p under the settings s
MsSupportedAlways(p, s) == TRUE
MsSupported(p, s) ==
  IF p = "MicrosoftTranslation"
    THEN s.MT_MICROSOFT_ID # None /\ s.MT_MICROSOFT_SECRET # None
    ELSE s.MT_MICROSOFT_COGNITIVE_KEY # None

\* a provider object that was constructed with all three values present
ConfInit ==
  /\ settings = [MT_MICROSOFT_ID |-> Some("id"),
                 MT_MICROSOFT_SECRET |-> Some("secret"),
                 MT_MICROSOFT_COGNITIVE_KEY |-> Some("key")]
  /\ instance = "constructed"

\* no provider object yet, under any settings
NewInit ==
  /\ settings \in AllSettings
  /\ instance = "new"

\* __init__ of the bearer providers (MicrosoftCognitiveTranslation inherits
\* it): the constructor of the base class runs, which sends no request; both
\* fields are set to None; MissingConfiguration is raised unless ms_supported.
Construct ==
  /\ instance = "new"
  /\ _access_token' = None
  /\ _token_expiry' = None
  /\ instance' = IF MsSupported(provider, settings)
                   THEN "constructed" ELSE "MissingConfiguration"
  /\ UNCHANGED <<termVars, soapVars, codecVars, settings, provider, now, pc,
                 sawNone, depth, data, req, res, lastSeen, authCount,
                 authBearer, lease, installedAt>>

(* ------------------------ strings and texts --------------------------- *)
\* A language code is the sequence of its characters.
UpperCase == <<"A", "B", "C", "D", "E", "F", "G", "H", "I", "J", "K", "L", "M",
               "N", "O", "P", "Q", "R", "S", "T", "U", "V", "W", "X", "Y", "Z">>
LowerCase == <<"a", "b", "c", "d", "e", "f", "g", "h", "i", "j", "k", "l", "m",
               "n", "o", "p", "q", "r", "s", "t", "u", "v", "w", "x", "y", "z">>

\* one character of str.lower()
LowerChar(c) ==
  IF \E i \in 1 .. Len(UpperCase) : UpperCase[i] = c
    THEN LowerCase[CHOOSE i \in 1 .. Len(UpperCase) : UpperCase[i] = c]
    ELSE c

\* str.lower()
RECURSIVE Lower(_)
Lower(s) == IF s = <<>> THEN <<>> ELSE <<LowerChar(Head(s))>> \o Lower(Tail(s))

\* str.replace(a, b) for single characters a and b
RECURSIVE Replace(_, _, _)
Replace(s, a, b) ==
  IF s = <<>> THEN <<>>
  ELSE <<IF Head(s) = a THEN b ELSE Head(s)>> \o Replace(Tail(s), a, b)

\* c in s
Contains(s, c) == \E i \in 1 .. Len(s) : s[i] = c

\* s.split(c)[0]
RECURSIVE SplitFirst(_, _)
SplitFirst(s, c) ==
  IF s = <<>> \/ Head(s) = c THEN <<>> ELSE <<Head(s)>> \o SplitFirst(Tail(s), c)

\* A text is the sequence of its runs of equal characters: [ch, n] stands for
\* n times the character ch. The empty text is the empty sequence.
RECURSIVE TextLen(_)
TextLen(text) == IF text = <<>> THEN 0 ELSE Head(text).n + TextLen(Tail(text))

\* text[:k]
RECURSIVE Take(_, _)
Take(text, k) ==
  IF text = <<>> \/ k <= 0 THEN <<>>
  ELSE IF Head(text).n >= k THEN <<[ch |-> Head(text).ch, n |-> k]>>
  ELSE <<Head(text)>> \o Take(Tail(text), k - Head(text).n)

(* ---------------------- MicrosoftTranslation -------------------------- *)
\* the arguments download_translations passes to json_req
MsTranslateArgs(source, language, text) ==
  [text |-> Take(text, MS_TEXT_LIMIT), from |-> source, to |-> language,
   contentType |-> "text/plain", category |-> "general"]

(* -------------------- MicrosoftTerminologyService --------------------- *)
TermName == "Microsoft Terminology"

\* an exception: its class and its message
Exc(cls, msg) == [cls |-> cls, msg |-> msg]

\* a request as urlopen gets it
SoapRequest(soap_action, source, language, text) ==
  [soap_action |-> soap_action, source |-> source, language |-> language,
   text |-> text,
   max_result |-> IF soap_action = "GetTranslations" THEN Some(MAX_RESULT)
                                                     ELSE None]

\* convert_language of the base class: lower case, one separator
ConvertLanguage(language) == Lower(Replace(language, "_", "-"))

\* DEFAULT_LANGS: region qualified variants, language_REGION
DEFAULT_LANGS ==
  << <<"d", "e", "_", "D", "E">>, <<"e", "n", "_", "U", "S">>,
     <<"f", "r", "_", "F", "R">>, <<"e", "n", "_", "G", "B">> >>

\* soap_req: the request is built and sent; [exc, handle, sent] is the
\* exception raised if any, the handle returned, and the requests sent.
\* answer is what urlopen does with the request.
SoapReq(soap_action, source, language, text, answer) ==
  IF soap_action \notin {"GetLanguages", "GetTranslations"}
    THEN \* raise MachineTranslationError(...).format(...): the exception
         \* object has no attribute format
         [exc |-> Some(Exc("AttributeError", "no attribute format")),
          handle |-> answer, sent |-> <<>>]
  ELSE IF soap_action = "GetTranslations"
          /\ ~(source # <<>> /\ language # <<>> /\ text # <<>>)
    THEN \* template is not bound: template.render fails inside the try
         [exc |-> Some(Exc("MachineTranslationError", "template unbound")),
          handle |-> answer, sent |-> <<>>]
  ELSE IF answer.kind = "raise"
    THEN [exc |-> Some(Exc("MachineTranslationError", answer.msg)),
          handle |-> answer,
          sent |-> <<SoapRequest(soap_action, source, language, text)>>]
  ELSE [exc |-> None, handle |-> answer,
        sent |-> <<SoapRequest(soap_action, source, language, text)>>]

\* soap_status_req after soap_req returned r: the status is checked
SoapStatusUnchecked(r) == r
SoapStatusCheck(r) ==
  IF r.exc # None THEN r
  ELSE IF r.handle.code # 200
    THEN [r EXCEPT !.exc = Some(Exc("MachineTranslationError", r.handle.msg))]
  ELSE r

\* soap_status_req
SoapStatusReq(soap_action, source, language, text, answer) ==
  SoapStatusCheck(SoapReq(soap_action, source, language, text, answer))

\* json_req: the adapter to soap_req
JsonReq(soap_action, source, language, text, answer) ==
  SoapReq(soap_action, source, language, text, answer)

\* json_status_req: soap_status_req, and the status is checked once more
JsonStatusReq(soap_action, source, language, text, answer) ==
  SoapStatusCheck(SoapStatusReq(soap_action, source, language, text, answer))

\* what a download function leaves: the exception raised if any, the list
\* returned, and the requests sent
Downloaded(exc, val, sent) == [exc |-> exc, val |-> val, sent |-> sent]

\* the loop of download_languages over the elements of GetLanguagesResult,
\* languages being the list built so far
RECURSIVE ReadLanguages(_, _, _)
ReadLanguages(entries, languages, sent) ==
  IF entries = <<>> THEN Downloaded(None, languages, sent)
  ELSE IF Head(entries) = None
    THEN Downloaded(Some(Exc("AttributeError", "NoneType has no attribute text")),
                    <<>>, sent)
  ELSE ReadLanguages(Tail(entries), Append(languages, Val(Head(entries))), sent)

\* download_languages after soap_status_req returned r
DownloadLanguagesRead(r) ==
  IF r.exc # None THEN Downloaded(r.exc, <<>>, r.sent)
  ELSE IF ~r.handle.wellformed
    THEN Downloaded(Some(Exc("ParseError", "syntax error")), <<>>, r.sent)
  ELSE IF r.handle.results = None THEN Downloaded(None, <<>>, r.sent)
  ELSE ReadLanguages(Val(r.handle.results), <<>>, r.sent)

\* download_languages
DownloadLanguages(answer) ==
  DownloadLanguagesRead(SoapStatusReq("GetLanguages", <<>>, <<>>, <<>>, answer))

\* the exception raised while one element of GetTranslationsResult is read:
\* TranslatedText, int(ConfidenceLevel), OriginalText, in this order
EntryError(e) ==
  IF e.translated = None \/ e.confidence = None
    THEN Some(Exc("AttributeError", "NoneType has no attribute text"))
  ELSE IF ~Val(e.confidence).numeric
    THEN Some(Exc("ValueError", "invalid literal for int()"))
  ELSE IF e.original = None
    THEN Some(Exc("AttributeError", "NoneType has no attribute text"))
  ELSE None

\* the tuple download_translations makes of one element
EntryTuple(e) ==
  <<Val(e.translated), Val(e.confidence).value, TermName, Val(e.original)>>

\* the loop of download_translations over the elements of the result,
\* translations being the list built so far
RECURSIVE ReadTranslations(_, _, _)
ReadTranslations(entries, translations, sent) ==
  IF entries = <<>> THEN Downloaded(None, translations, sent)
  ELSE IF EntryError(Head(entries)) # None
    THEN Downloaded(EntryError(Head(entries)), <<>>, sent)
  ELSE ReadTranslations(Tail(entries),
                        Append(translations, EntryTuple(Head(entries))), sent)

\* download_translations after soap_status_req returned r
DownloadTranslationsRead(r) ==
  IF r.exc # None THEN Downloaded(r.exc, <<>>, r.sent)
  ELSE IF ~r.handle.wellformed
    THEN Downloaded(Some(Exc("ParseError", "syntax error")), <<>>, r.sent)
  ELSE IF r.handle.results = None THEN Downloaded(None, <<>>, r.sent)
  ELSE ReadTranslations(Val(r.handle.results), <<>>, r.sent)

\* download_translations of the terminology service
DownloadTranslations(source, language, text, answer) ==
  DownloadTranslationsRead(
    SoapStatusReq("GetTranslations", source, language, text, answer))

\* the elements of a list
Elements(list) == {list[i] : i \in 1 .. Len(list)}

\* supported_languages of the base class: downloaded at the first use and
\* memoized; [exc, val, sent] with val the set of codes
SupportedLanguages(cache, answer) ==
  IF cache # None THEN Downloaded(None, Val(cache), <<>>)
  ELSE IF DownloadLanguages(answer).exc # None THEN DownloadLanguages(answer)
  ELSE Downloaded(None, Elements(DownloadLanguages(answer).val),
                  DownloadLanguages(answer).sent)

\* is_supported of the base class
IsSupported(langs, source, language) == language \in langs /\ source \in langs

\* the condition under which translate searches DEFAULT_LANGS for a code
WidenCondition(code) == ~Contains(code, "-") \/ ~Contains(code, "_")

\* the search: the first variant whose language part equals the code
WidenSearchAsListed(code, langs) ==
  IF \E i \in 1 .. Len(langs) : SplitFirst(langs[i], "_") = code
    THEN langs[CHOOSE i \in 1 .. Len(langs) : SplitFirst(langs[i], "_") = code]
    ELSE code
RECURSIVE WidenSearch(_, _)
WidenSearch(code, langs) ==
  IF langs = <<>> THEN code
  ELSE IF SplitFirst(Head(langs), "_") = code
    THEN Lower(Replace(Head(langs), "_", "-"))
  ELSE WidenSearch(code, Tail(langs))

\* one side of the pair after the search
WidenNever(code) == code
Widen(code) == IF WidenCondition(code) THEN WidenSearch(code, DEFAULT_LANGS) ELSE code

\* text == ''
TextIsEmptyNever(text) == FALSE
TextIsEmpty(text) == text = <<>>

\* the second check of translate: not self.is_supported(source, language)
StillUnsupportedNever(langs, source, language) == FALSE
StillUnsupported(langs, source, language) == ~IsSupported(langs, source, language)

\* MachineTranslationError('{0}: {1}'.format(exc.__class__.__name__, str(exc)))
TranslationErrorBare(exc) == Exc("MachineTranslationError", exc.msg)
TranslationError(exc) == Exc("MachineTranslationError", exc.cls \o ": " \o exc.msg)

\* the dictionaries translate returns for the tuples of download_translations
RECURSIVE Candidates(_)
Candidates(translations) ==
  IF translations = <<>> THEN <<>>
  ELSE <<[text |-> Head(translations)[1], quality |-> Head(translations)[2],
          service |-> Head(translations)[3], source |-> Head(translations)[4]]>>
       \o Candidates(Tail(translations))

Returned(val) == [status |-> "return", val |-> val, exc |-> None]
Raised(exc) == [status |-> "raise", val |-> <<>>, exc |-> Some(exc)]
NoResult == [status |-> "none", val |-> <<>>, exc |-> None]

\* what a call of translate leaves: the branch taken, the result, the
\* requests sent, the exceptions reported, supported_languages as memoized
\* and the local variables source and language
Outcome(branch, outcome, sent, reported, cache, source, language) ==
  [path |-> branch, result |-> outcome, net |-> sent, reports |-> reported,
   cache |-> cache, source |-> source, language |-> language]

\* the try block of translate after download_translations left d
TranslateHandleRetry(d, source, language, langs, sent) ==
  IF d.exc = None
    THEN Outcome("translated", Returned(Candidates(d.val)), sent \o d.sent,
                 <<>>, Some(langs), Some(source), Some(language))
    ELSE Outcome("failed", Raised(TranslationError(Val(d.exc))),
                 sent \o d.sent \o d.sent, <<Val(d.exc)>>, Some(langs),
                 Some(source), Some(language))
TranslateHandle(d, source, language, langs, sent) ==
  IF d.exc = None
    THEN Outcome("translated", Returned(Candidates(d.val)), sent \o d.sent,
                 <<>>, Some(langs), Some(source), Some(language))
    ELSE Outcome("failed", Raised(TranslationError(Val(d.exc))),
                 sent \o d.sent, <<Val(d.exc)>>, Some(langs), Some(source),
                 Some(language))

\* the try block of translate
TranslateFetch(source, language, text, langs, sent, answer) ==
  TranslateHandle(DownloadTranslations(source, language, text, answer),
                  source, language, langs, sent)

\* translate after the codes were widened
TranslateWidened(source, language, text, langs, sent, answer) ==
  IF source = language
    THEN Outcome("same", Returned(<<>>), sent, <<>>, Some(langs),
                 Some(source), Some(language))
  ELSE IF StillUnsupported(langs, source, language)
    THEN Outcome("unsupported", Returned(<<>>), sent, <<>>, Some(langs),
                 Some(source), Some(language))
  ELSE TranslateFetch(source, language, text, langs, sent, answer)

\* translate after the codes were converted, sl being what the first use of
\* supported_languages left
TranslateConverted(source, language, text, cache, sl, answer) ==
  IF sl.exc # None
    THEN Outcome("languages failed", Raised(Val(sl.exc)), sl.sent, <<>>,
                 cache, Some(source), Some(language))
  ELSE IF IsSupported(sl.val, source, language)
    THEN TranslateFetch(source, language, text, sl.val, sl.sent, answer)
  ELSE TranslateWidened(Widen(source), Widen(language), text, sl.val, sl.sent,
                        answer)

\* translate(language, text, unit, user), code being the code of the source
\* language of the unit's project; cache is supported_languages as memoized,
\* and answers are what the service does with the requests of this call
TranslateRun(language, code, text, cache, answers) ==
  IF TextIsEmpty(text)
    THEN Outcome("empty", Returned(<<>>), <<>>, <<>>, cache, None, None)
    ELSE TranslateConverted(ConvertLanguage(code), ConvertLanguage(language),
                            text, cache,
                            SupportedLanguages(cache, answers.langs),
                            answers.trans)

(* the callers and the remote service of the terminology provider *)
\* language codes a caller asks for, and source language codes of projects
Codes ==
  { <<"e", "n">>, <<"f", "r">>, <<"e", "n", "_", "U", "S">>, <<"x", "x">>,
    <<"d", "e">>, <<"e", "n", "-", "U", "S">> }

\* texts: empty, short, and around the length of MS_TEXT_LIMIT
Texts ==
  { <<>>,
    <<[ch |-> "a", n |-> 1]>>,
    <<[ch |-> "a", n |-> MS_TEXT_LIMIT]>>,
    <<[ch |-> "a", n |-> MS_TEXT_LIMIT], [ch |-> "b", n |-> 1]>>,
    <<[ch |-> "a", n |-> MS_TEXT_LIMIT - 1], [ch |-> "b", n |-> 3]>> }

NoAnswer == [kind |-> "none", msg |-> "", code |-> 0, wellformed |-> FALSE,
             results |-> None]
Failure(msg) == [NoAnswer EXCEPT !.kind = "raise", !.msg = msg]
Response(code, msg, wellformed, results) ==
  [kind |-> "response", msg |-> msg, code |-> code, wellformed |-> wellformed,
   results |-> results]

\* the answers of the service to GetLanguages
LanguageAnswers ==
  { Failure("timed out"),
    Response(200, "OK", TRUE, Some(<<Some(<<"e", "n">>), Some(<<"f", "r">>)>>)),
    Response(200, "OK", TRUE,
             Some(<<Some(<<"e", "n", "-", "u", "s">>),
                    Some(<<"f", "r", "-", "f", "r">>),
                    Some(<<"d", "e", "-", "d", "e">>)>>)),
    Response(200, "OK", TRUE, None) }

Entry(translated, confidence, original) ==
  [translated |-> translated, confidence |-> confidence, original |-> original]
Confidence(numeric, value) == Some([numeric |-> numeric, value |-> value])
GoodEntry(i) == Entry(Some(<<"t", i>>), Confidence(TRUE, 100 - i), Some("o"))

RECURSIVE GoodEntries(_)
GoodEntries(n) == IF n = 0 THEN <<>> ELSE Append(GoodEntries(n - 1), GoodEntry(n))

\* the answers of the service to GetTranslations
TranslationAnswers ==
  { Failure("timed out"),
    Response(204, "No Content", TRUE, None),
    Response(200, "OK", FALSE, None),
    Response(200, "OK", TRUE, None),
    Response(200, "OK", TRUE,
             Some(<<GoodEntry(1), Entry(None, Confidence(TRUE, 50), Some("o"))>>)),
    Response(200, "OK", TRUE,
             Some(<<Entry(Some(<<"t", 1>>), Confidence(FALSE, 0), Some("o"))>>)) }
  \cup { Response(200, "OK", TRUE, Some(GoodEntries(n))) :
           n \in (0 .. MaxEntries) \cup {MAX_RESULT + 1} }

NoCall == [language |-> <<>>, code |-> <<>>, text |-> <<>>]
NoAnswers == [langs |-> NoAnswer, trans |-> NoAnswer]

TermInit ==
  /\ tpc = "idle"
  /\ call = NoCall
  /\ srv = NoAnswers
  /\ langCache = None
  /\ t_source = None
  /\ t_language = None
  /\ path = "none"
  /\ result = NoResult
  /\ net = <<>>
  /\ reports = <<>>

\* a caller calls translate; the service will answer as srv says
TranslateCalled ==
  /\ tpc = "idle"
  /\ tpc' = "called"
  /\ \E language \in Codes, code \in Codes, text \in Texts :
       call' = [language |-> language, code |-> code, text |-> text]
  /\ \E la \in LanguageAnswers, ta \in TranslationAnswers :
       srv' = [langs |-> la, trans |-> ta]
  /\ UNCHANGED <<tokenVars, auxVars, langCache, t_source, t_language, path, result,
                 net, reports>>

\* translate runs
Translate ==
  /\ tpc = "called"
  /\ tpc' = "done"
  /\ \E r \in {TranslateRun(call.language, call.code, call.text, langCache, srv)} :
       /\ path' = r.path
       /\ result' = r.result
       /\ net' = r.net
       /\ reports' = r.reports
       /\ langCache' = r.cache
       /\ t_source' = r.source
       /\ t_language' = r.language
  /\ UNCHANGED <<tokenVars, auxVars, call, srv>>

\* the caller has taken the result
TranslateDone ==
  /\ tpc = "done"
  /\ tpc' = "idle"
  /\ call' = NoCall
  /\ srv' = NoAnswers
  /\ t_source' = None
  /\ t_language' = None
  /\ path' = "none"
  /\ result' = NoResult
  /\ net' = <<>>
  /\ reports' = <<>>
  /\ UNCHANGED <<tokenVars, auxVars, langCache>>

(* direct calls of the request functions of the terminology provider *)
RequestFunctions == {"soap_req", "json_req", "soap_status_req", "json_status_req"}

\* soap_action as given in kwargs; kwargs.get gives '' when it is missing
SoapActions == {"GetLanguages", "GetTranslations", "GetDefinitions", ""}

\* what urlopen does with a request: it raises (no connection, or HTTPError
\* for a status of 400 and above), or returns a response
SoapAnswers ==
  { Failure("timed out"),
    Failure("HTTP Error 500: Internal Server Error"),
    Response(200, "OK", TRUE, None),
    Response(202, "Accepted", TRUE, None),
    Response(204, "No Content", TRUE, None) }

NoSoapCall == [fn |-> "none", soap_action |-> "", source |-> <<>>,
               language |-> <<>>, text |-> <<>>, answer |-> NoAnswer]
NoSoapOut == [exc |-> None, handle |-> NoAnswer, sent |-> <<>>]

SoapInit ==
  /\ spc = "idle"
  /\ s_call = NoSoapCall
  /\ s_out = NoSoapOut

\* the function c.fn run with the arguments of c
SoapRun(c) ==
  CASE c.fn = "soap_req" ->
         SoapReq(c.soap_action, c.source, c.language, c.text, c.answer)
    [] c.fn = "json_req" ->
         JsonReq(c.soap_action, c.source, c.language, c.text, c.answer)
    [] c.fn = "soap_status_req" ->
         SoapStatusReq(c.soap_action, c.source, c.language, c.text, c.answer)
    [] c.fn = "json_status_req" ->
         JsonStatusReq(c.soap_action, c.source, c.language, c.text, c.answer)

\* a caller calls one of the request functions
SoapCalled ==
  /\ spc = "idle"
  /\ spc' = "called"
  /\ \E fn \in RequestFunctions, soap_action \in SoapActions,
        source \in {<<>>, <<"e", "n">>}, language \in {<<>>, <<"f", "r">>},
        text \in {<<>>, <<[ch |-> "a", n |-> 1]>>}, answer \in SoapAnswers :
       s_call' = [fn |-> fn, soap_action |-> soap_action, source |-> source,
                  language |-> language, text |-> text, answer |-> answer]
  /\ UNCHANGED <<tokenVars, termVars, confVars, codecVars, s_out>>

\* the function runs: it raises or returns
SoapReturns ==
  /\ spc = "called"
  /\ spc' = "done"
  /\ s_out' = SoapRun(s_call)
  /\ UNCHANGED <<tokenVars, termVars, confVars, codecVars, s_call>>

\* the caller has taken the outcome
SoapDone ==
  /\ spc = "done"
  /\ spc' = "idle"
  /\ s_call' = NoSoapCall
  /\ s_out' = NoSoapOut
  /\ UNCHANGED <<tokenVars, termVars, confVars, codecVars>>

(* ------------- convert_language of the bearer providers --------------- *)
\* MicrosoftTranslation.convert_language after language was lower-cased and
\* its separators replaced
MsConvertTable(l) ==
  IF l = <<"z", "h", "-", "t", "w">> THEN <<"z", "h", "-", "C", "H", "T">>
  ELSE IF l = <<"z", "h", "-", "c", "n">> THEN <<"z", "h", "-", "C", "H", "S">>
  ELSE IF l = <<"n", "b">> THEN <<"n", "o">>
  ELSE IF l = <<"p", "t", "-", "b", "r">> THEN <<"p", "t">>
  ELSE l

\* MicrosoftTranslation.convert_language
MsConvertLanguageAsGiven(language) == MsConvertTable(language)
MsConvertLanguage(language) == MsConvertTable(Lower(Replace(language, "_", "-")))

\* MicrosoftCognitiveTranslation.LANGUAGE_CONVERTER
LANGUAGE_CONVERTER ==
  (<<"z", "h", "-", "h", "a", "n", "t">> :> <<"z", "h", "-", "C", "H", "T">>)
  @@ (<<"z", "h", "-", "h", "a", "n", "s">> :> <<"z", "h", "-", "C", "H", "S">>)
  @@ (<<"z", "h", "-", "t", "w">> :> <<"z", "h", "-", "C", "H", "T">>)
  @@ (<<"z", "h", "-", "c", "n">> :> <<"z", "h", "-", "C", "H", "S">>)
  @@ (<<"t", "l", "h", "-", "q", "a", "a", "k">> :> <<"t", "l", "h", "-", "Q", "a", "a", "k">>)
  @@ (<<"n", "b">> :> <<"n", "o">>)
  @@ (<<"b", "s", "-", "l", "a", "t", "n">> :> <<"b", "s", "-", "L", "a", "t", "n">>)
  @@ (<<"s", "r", "-", "l", "a", "t", "n">> :> <<"s", "r", "-", "L", "a", "t", "n">>)
  @@ (<<"s", "r", "-", "c", "y", "r", "l">> :> <<"s", "r", "-", "C", "y", "r", "l">>)

\* MicrosoftCognitiveTranslation.convert_language after language was
\* lower-cased and its separators replaced
CognitiveConvertTable(l) ==
  IF l \in DOMAIN LANGUAGE_CONVERTER THEN LANGUAGE_CONVERTER[l]
  ELSE SplitFirst(l, "-")

\* MicrosoftCognitiveTranslation.convert_language
CognitiveConvertLanguage(language) ==
  CognitiveConvertTable(Lower(Replace(language, "_", "-")))

\* convert_language of an object of the class p
ConvertLanguageOf(p, language) ==
  IF p = "MicrosoftTranslation" THEN MsConvertLanguage(language)
  ELSE CognitiveConvertLanguage(language)

\* one character of str.upper()
UpperChar(c) ==
  IF \E i \in 1 .. Len(LowerCase) : LowerCase[i] = c
    THEN UpperCase[CHOOSE i \in 1 .. Len(LowerCase) : LowerCase[i] = c]
    ELSE c

\* str.upper()
RECURSIVE Upper(_)
Upper(str) ==
  IF str = <<>> THEN <<>> ELSE <<UpperChar(Head(str))>> \o Upper(Tail(str))

\* the spellings of a code: as given, in lower and in upper case, each with
\* either separator
Spellings(c) ==
  {c, Lower(c), Upper(c), Replace(c, "_", "-"), Lower(Replace(c, "_", "-")),
   Upper(Replace(c, "_", "-"))}

\* the codes callers convert
ConvBase ==
  { <<"z", "h", "_", "T", "W">>,
    <<"z", "h", "_", "C", "N">>,
    <<"p", "t", "_", "B", "R">>,
    <<"n", "b">>,
    <<"z", "h", "_", "H", "a", "n", "t">>,
    <<"z", "h", "_", "H", "a", "n", "s">>,
    <<"t", "l", "h", "_", "Q", "a", "a", "k">>,
    <<"b", "s", "_", "L", "a", "t", "n">>,
    <<"s", "r", "_", "L", "a", "t", "n">>,
    <<"s", "r", "_", "C", "y", "r", "l">>,
    <<"e", "n">>,
    <<"e", "n", "_", "G", "B">>,
    <<"p", "t", "_", "P", "T">>,
    <<"f", "r">> }

ConvCodes == UNION {Spellings(c) : c \in ConvBase}

CodecInit ==
  /\ c_language = None
  /\ c_result = None

\* a caller converts a language code
ConvertCalled ==
  /\ \E language \in ConvCodes :
       /\ c_language' = Some(language)
       /\ c_result' = Some(ConvertLanguageOf(provider, language))
  /\ UNCHANGED <<tokenVars, termVars, confVars, soapVars>>

AuxInit == ConfInit /\ SoapInit /\ CodecInit

Init == TokenInit /\ TermInit /\ AuxInit

Next ==
  \/ Tick
  \/ \E t \in Threads : Call(t)
  \/ \E t \in Threads : ReadToken(t)
  \/ \E t \in Threads : AuthResponse(t)
  \/ \E t \in Threads : WriteExpiry(t)

Spec == Init /\ [][Next]_vars

SeqNext ==
  \/ Tick
  \/ \E t \in SeqThreads : Call(t)
  \/ \E t \in SeqThreads : ReadToken(t)
  \/ \E t \in SeqThreads : AuthResponse(t)
  \/ \E t \in SeqThreads : WriteExpiry(t)

SpecSeq == Init /\ [][SeqNext]_vars

TermNext ==
  \/ TranslateCalled
  \/ Translate
  \/ TranslateDone

SpecTerm == Init /\ [][TermNext]_vars

\* a bearer provider is constructed and then used, call after call
ConstructInit == TokenInit /\ TermInit /\ NewInit /\ SoapInit /\ CodecInit

ConstructNext ==
  \/ Construct
  \/ (instance = "constructed" /\ SeqNext)

SpecConstruct == ConstructInit /\ [][ConstructNext]_vars

SoapNext ==
  \/ SoapCalled
  \/ SoapReturns
  \/ SoapDone

SpecSoap == Init /\ [][SoapNext]_vars

CodecNext == ConvertCalled

SpecCodec == Init /\ [][CodecNext]_vars

\* one provider object of any of the three classes, used call after call
TermProvider == "MicrosoftTerminologyService"

CallsInit ==
  /\ provider \in Providers \cup {TermProvider}
  /\ CacheInit
  /\ TermInit
  /\ AuxInit

CallsNext ==
  \/ (provider \in Providers /\ SeqNext)
  \/ (provider = TermProvider /\ TermNext)

SpecCalls == CallsInit /\ [][CallsNext]_vars

(* ------------------- claims about the token cache -------------------- *)
InRefresh(t) == pc[t] \in {"wait", "expiry"}
AuthFailures == {"TransportError", "MachineTranslationError"}
AuthFailed(d) == d.kind = "raise" \/ (d.kind = "json" /\ d.error)

\* C1: two callers that read access_token at once while no token is held
\* cause one authentication request only (they are never both between sending
\* the request and installing its result), and both get the same token.
C1_SingleFlight ==
  \A t, u \in Threads :
    (t # u /\ sawNone[t] /\ sawNone[u]) =>
      /\ ~(InRefresh(t) /\ InRefresh(u))
      /\ (pc[t] = "idle" /\ pc[u] = "idle" /\ res[t] = "sent" /\ res[u] = "sent")
           => req[t].bearer = req[u].bearer

\* C2: whoever evaluates the condition of access_token finds a token together
\* with the expiry that was assigned with that token, never a new token beside
\* the previous expiry or beside no expiry.
C2_NoPartialCredential ==
  lastSeen[1] # None => lastSeen[2] = lastSeen[3]

\* C3: a request other than the authentication request carries a token that
\* was held and not expired at the instant authenticate() attached it; a read
\* that finds no token, or an expired one, sends nothing before the refresh;
\* the authentication request carries no token and reads access_token no
\* second time.
C3_BearerTokenValid ==
  /\ [](\A t \in Threads :
          /\ (pc[t] = "idle" /\ res[t] = "sent") =>
                (req[t].bearer # None /\ req[t].fresh)
          /\ depth[t] <= 1)
  /\ [](authBearer = None)
  /\ [][\A t \in Threads :
          (/\ pc[t] = "read"
           /\ pc'[t] # "read"
           /\ \/ _access_token = None
              \/ _token_expiry = None
              \/ Val(_token_expiry) <= now)
          => (req'[t] = NoReq /\ pc'[t] # "expiry")]_vars

\* a caller that found an expired token has refreshed it and sent its request
\* with the token it was answered
C3_Witness ==
  \E t \in Threads :
    /\ pc[t] = "idle" /\ res[t] = "sent" /\ ~sawNone[t]
    /\ data[t].access_token # None
    /\ req[t].bearer = data[t].access_token
    /\ req[t].fresh

\* C4: a credential installed at instant T has expiry T + 9; a read at an
\* instant >= T + 9 sends an authentication request, a read before it sends
\* none and returns the token held.
C4_LeaseBoundary ==
  /\ [](\A t \in SeqThreads :
          (pc[t] \in {"idle", "read"} /\ _access_token # None) =>
             (installedAt # None /\ _token_expiry = Some(Val(installedAt) + 9)))
  /\ [][\A t \in SeqThreads :
          (pc[t] = "read" /\ pc'[t] # "read" /\ _access_token # None) =>
             IF now >= Val(installedAt) + 9
               THEN authCount' = authCount + 1 /\ pc'[t] = "wait"
               ELSE /\ authCount' = authCount
                    /\ res'[t] = "sent"
                    /\ req'[t].bearer = _access_token
                    /\ _access_token' = _access_token]_vars

\* a read exactly nine minutes after the installation has sent an
\* authentication request
C4_Witness ==
  /\ pc[1] = "wait" /\ ~sawNone[1]
  /\ installedAt # None /\ now = Val(installedAt) + 9

\* C5: when the authentication fails (json_req raises, or the response carries
\* an error), access_token raises and both fields keep their values; the next
\* read sends a new authentication request.
C5_AuthFailureKeepsCache ==
  [][\A t \in SeqThreads :
       /\ (pc[t] = "wait" /\ pc'[t] # "wait" /\ AuthFailed(data'[t])) =>
             /\ _access_token' = _access_token
             /\ _token_expiry' = _token_expiry
             /\ pc'[t] = "idle"
             /\ res'[t] \in AuthFailures
       /\ (pc[t] = "read" /\ pc'[t] # "read" /\ res[t] \in AuthFailures) =>
             (authCount' = authCount + 1 /\ pc'[t] = "wait")]_vars

\* after a failed authentication with no token held, the next read has sent
\* another authentication request
C5_Witness ==
  /\ pc[1] = "wait" /\ res[1] \in AuthFailures
  /\ _access_token = None /\ _token_expiry = None /\ authCount = 2

(* ------------- claims about the terminology provider ----------------- *)
\* no GetTranslations request was sent during the call
NoTranslationRequest ==
  \A i \in 1 .. Len(net) : net[i].soap_action # "GetTranslations"

\* C6: when translate ends with source equal to language (the supported
\* languages being known), it returns the empty list and has sent no
\* translation request, also when the pair passed the first is_supported.
C6_SamePairNoRequest ==
  (tpc = "done" /\ path # "languages failed"
   /\ t_source # None /\ t_source = t_language)
    => (result = Returned(<<>>) /\ NoTranslationRequest)

\* C7: when the pair is not supported after both sides were widened,
\* translate returns the empty list, raises and reports nothing, and has sent
\* no translation request.
C7_UnsupportedIsEmpty ==
  (tpc = "done" /\ langCache # None /\ t_source # None /\ t_language # None
   /\ ~(Val(t_source) \in Val(langCache) /\ Val(t_language) \in Val(langCache)))
    => (result = Returned(<<>>) /\ NoTranslationRequest /\ reports = <<>>)

\* a side was widened and the pair is still not supported
C7_Witness ==
  /\ tpc = "done" /\ path = "unsupported" /\ call.text # <<>>
  /\ t_language # Some(ConvertLanguage(call.language))
  /\ result = Returned(<<>>)

\* C8: translate of the empty text returns the empty list and has converted
\* no language, used no supported_languages and sent no request, whatever the
\* codes and whatever is memoized.
C8_EmptyText ==
  [][(tpc = "called" /\ tpc' = "done" /\ call.text = <<>>) =>
       /\ result' = Returned(<<>>)
       /\ net' = <<>>
       /\ reports' = <<>>
       /\ t_source' = None /\ t_language' = None
       /\ langCache' = langCache]_vars

\* the empty text was translated while no languages were memoized and the
\* service would have answered
C8_Witness ==
  /\ tpc = "done" /\ call.text = <<>> /\ langCache = None
  /\ srv.langs.kind = "response" /\ result = Returned(<<>>)

\* C9: when download_translations raises, translate gives exactly that
\* exception to report_error, once, and raises MachineTranslationError with
\* the class name and the message of it; nothing else leaves the try block.
C9_UniformFailure ==
  (tpc = "done" /\ path \in {"translated", "failed"}) =>
     \A d \in {DownloadTranslations(Val(t_source), Val(t_language), call.text,
                                    srv.trans)} :
       IF d.exc # None
         THEN /\ reports = <<Val(d.exc)>>
              /\ result.status = "raise"
              /\ Val(result.exc).cls = "MachineTranslationError"
              /\ Val(result.exc).msg = Val(d.exc).cls \o ": " \o Val(d.exc).msg
         ELSE /\ reports = <<>>
              /\ result.status = "return"

\* the response could not be parsed: ParseError was reported and wrapped
C9_Witness ==
  /\ tpc = "done" /\ path = "failed"
  /\ reports = <<Exc("ParseError", "syntax error")>>
  /\ result = Raised(Exc("MachineTranslationError", "ParseError: syntax error"))

\* C10: the text of every translation request is the text given cut to 5000
\* characters: of length 5000 when the text is longer, the text itself
\* otherwise; for download_translations of MicrosoftTranslation and of the
\* terminology service.
C10_TextIsCut ==
  /\ \A text \in Texts :
       /\ TextLen(MsTranslateArgs(<<>>, <<>>, text).text)
            = (IF TextLen(text) > 5000 THEN 5000 ELSE TextLen(text))
       /\ TextLen(text) <= 5000 => MsTranslateArgs(<<>>, <<>>, text).text = text
  /\ \A i \in 1 .. Len(net) :
       net[i].soap_action = "GetTranslations" =>
         /\ TextLen(net[i].text)
              = (IF TextLen(call.text) > 5000 THEN 5000 ELSE TextLen(call.text))
         /\ TextLen(call.text) <= 5000 => net[i].text = call.text

\* C11: whatever the number of elements of GetTranslationsResult in the
\* response, download_translations returns at most 5 tuples and translate at
\* most 5 candidates.
C11_AtMostFive ==
  (tpc = "done" /\ path = "translated") =>
     /\ Len(result.val) <= 5
     /\ Len(DownloadTranslations(Val(t_source), Val(t_language), call.text,
                                 srv.trans).val) <= 5

(* ------------------- claims about the construction -------------------- *)
\* a value the class of the provider requires is None in settings
RequiredMissing ==
  \/ /\ provider = "MicrosoftTranslation"
     /\ (settings.MT_MICROSOFT_ID = None \/ settings.MT_MICROSOFT_SECRET = None)
  \/ /\ provider = "MicrosoftCognitiveTranslation"
     /\ settings.MT_MICROSOFT_COGNITIVE_KEY = None

\* C12: the construction of a bearer provider raises MissingConfiguration
\* when a value its class requires is None, and succeeds with no token and no
\* expiry held otherwise; no request is sent before the construction ends,
\* and none with an object whose construction failed.
C12_MissingConfiguration ==
  /\ [][(instance = "new" /\ instance' # "new") =>
          /\ authCount' = authCount /\ net' = net
          /\ IF RequiredMissing
               THEN instance' = "MissingConfiguration"
               ELSE /\ instance' = "constructed"
                    /\ _access_token' = None /\ _token_expiry' = None]_vars
  /\ [](instance \in {"new", "MissingConfiguration"} =>
          /\ authCount = 0 /\ net = <<>>
          /\ \A t \in Threads : pc[t] = "idle" /\ res[t] = "none")

\* MicrosoftCognitiveTranslation was not constructed for want of its key,
\* though id and secret are present
C12_Witness ==
  /\ instance = "MissingConfiguration"
  /\ provider = "MicrosoftCognitiveTranslation"
  /\ settings.MT_MICROSOFT_ID # None /\ settings.MT_MICROSOFT_SECRET # None
  /\ settings.MT_MICROSOFT_COGNITIVE_KEY = None

(* --------------- claims about the request functions ------------------- *)
\* the operation is known and, for GetTranslations, source, language and
\* text are all given and not empty
SoapWellFormed(c) ==
  \/ c.soap_action = "GetLanguages"
  \/ /\ c.soap_action = "GetTranslations"
     /\ c.source # <<>> /\ c.language # <<>> /\ c.text # <<>>

\* C13: soap_req for GetTranslations without source, language or text, and
\* soap_req for an operation other than GetLanguages and GetTranslations,
\* raise MachineTranslationError and urlopen is not called.
C13_ValidatedBeforeNetwork ==
  (spc = "done" /\ s_call.fn = "soap_req" /\ ~SoapWellFormed(s_call)) =>
     /\ s_out.exc # None
     /\ Val(s_out.exc).cls = "MachineTranslationError"
     /\ s_out.sent = <<>>

SameCode(a, b) == Lower(Replace(a, "_", "-")) = Lower(Replace(b, "_", "-"))

\* C15: convert_language of both bearer providers gives one result for all
\* spellings of a code (letter case, '_' or '-'), changes nothing of the
\* provider, and gives zh-CHT for zh_TW and pt for pt_BR.
C15_ConvertLanguage ==
  /\ [](c_language # None =>
          /\ \A other \in ConvCodes :
               SameCode(other, Val(c_language)) =>
                 ConvertLanguageOf(provider, other) = Val(c_result)
          /\ SameCode(Val(c_language), <<"z", "h", "_", "T", "W">>) =>
               c_result = Some(<<"z", "h", "-", "C", "H", "T">>)
          /\ SameCode(Val(c_language), <<"p", "t", "_", "B", "R">>) =>
               c_result = Some(<<"p", "t">>))
  /\ [][c_language' # c_language =>
          UNCHANGED <<tokenVars, termVars, confVars, soapVars>>]_vars

\* MicrosoftTranslation has converted ZH-TW
C15_Witness ==
  /\ provider = "MicrosoftTranslation"
  /\ c_language = Some(<<"Z", "H", "-", "T", "W">>)
  /\ c_result = Some(<<"z", "h", "-", "C", "H", "T">>)

(* --------------- claims about the language negotiation ---------------- *)
\* the call is over, for the source code and the language given, of a text
\* that is not empty, and the supported languages are the given ones
Negotiated(code, language, supported) ==
  /\ tpc = "done" /\ call.text # <<>>
  /\ call.code = code /\ call.language = language
  /\ langCache = Some(supported)

\* the GetTranslations requests sent during the call
TranslationRequests ==
  {i \in 1 .. Len(net) : net[i].soap_action = "GetTranslations"}

\* C16 as claimed: with {en, fr} supported and the pair (en-US, fr) asked
\* for, translate turns en-US into a supported code and sends the
\* translation request.
C16_WideningReduces ==
  Negotiated(<<"e", "n", "-", "U", "S">>, <<"f", "r">>,
             {<<"e", "n">>, <<"f", "r">>}) =>
    /\ Val(t_source) \in Val(langCache)
    /\ Val(t_language) \in Val(langCache)
    /\ TranslationRequests # {}

\* C16 as amended: widening adds a region and removes none. With {en, fr}
\* supported and (en-US, fr) asked for, the source stays en-us, the pair
\* stays unsupported, and translate returns the empty list without a
\* translation request. With {en-us, fr-fr, de-de} supported and (en, fr)
\* asked for, en_US and fr_FR being the first variants of en and fr in
\* DEFAULT_LANGS, the pair becomes (en-us, fr-fr) and exactly one translation
\* request is sent for it.
C16_WideningAddsRegion ==
  /\ Negotiated(<<"e", "n", "-", "U", "S">>, <<"f", "r">>,
                {<<"e", "n">>, <<"f", "r">>}) =>
       /\ t_source = Some(<<"e", "n", "-", "u", "s">>)
       /\ ~IsSupported(Val(langCache), Val(t_source), Val(t_language))
       /\ result = Returned(<<>>)
       /\ TranslationRequests = {}
  /\ Negotiated(<<"e", "n">>, <<"f", "r">>,
                {<<"e", "n", "-", "u", "s">>, <<"f", "r", "-", "f", "r">>,
                 <<"d", "e", "-", "d", "e">>}) =>
       /\ t_source = Some(<<"e", "n", "-", "u", "s">>)
       /\ t_language = Some(<<"f", "r", "-", "f", "r">>)
       /\ Cardinality(TranslationRequests) = 1
       /\ \A i \in TranslationRequests :
            /\ net[i].source = <<"e", "n", "-", "u", "s">>
            /\ net[i].language = <<"f", "r", "-", "f", "r">>

\* (en, fr) was widened to (en-us, fr-fr) and translated
C16_Witness ==
  /\ Negotiated(<<"e", "n">>, <<"f", "r">>,
                {<<"e", "n", "-", "u", "s">>, <<"f", "r", "-", "f", "r">>,
                 <<"d", "e", "-", "d", "e">>})
  /\ path = "translated" /\ Len(result.val) > 0

\* the region qualified variants of DEFAULT_LANGS whose language is c
VariantsOf(c) ==
  {i \in 1 .. Len(DEFAULT_LANGS) :
     \E j \in 1 .. Len(DEFAULT_LANGS[i]) :
       /\ DEFAULT_LANGS[i][j] = "_"
       /\ SubSeq(DEFAULT_LANGS[i], 1, j - 1) = c}

\* what widening is to make of one side
Widened(c) ==
  IF (\E j \in 1 .. Len(c) : c[j] \in {"-", "_"}) \/ VariantsOf(c) = {}
    THEN c
    ELSE Lower(Replace(
           DEFAULT_LANGS[CHOOSE i \in VariantsOf(c) :
                           \A k \in VariantsOf(c) : i <= k], "_", "-"))

\* C17: when the pair as converted is supported, translate keeps both codes.
\* Otherwise each side is widened by itself: a code with a separator stays,
\* a code without one becomes the first variant of DEFAULT_LANGS of that
\* language, in lower case with '-', and stays when there is none.
C17_WideningPerSide ==
  (tpc = "done" /\ path \notin {"empty", "languages failed"}) =>
     IF /\ ConvertLanguage(call.code) \in Val(langCache)
        /\ ConvertLanguage(call.language) \in Val(langCache)
       THEN /\ t_source = Some(ConvertLanguage(call.code))
            /\ t_language = Some(ConvertLanguage(call.language))
       ELSE /\ t_source = Some(Widened(ConvertLanguage(call.code)))
            /\ t_language = Some(Widened(ConvertLanguage(call.language)))

\* the source en_US kept its region while the language de became de-de
C17_Witness ==
  /\ tpc = "done" /\ path = "translated"
  /\ call.code = <<"e", "n", "_", "U", "S">> /\ call.language = <<"d", "e">>
  /\ t_source = Some(<<"e", "n", "-", "u", "s">>)
  /\ t_language = Some(<<"d", "e", "-", "d", "e">>)

(* ------------------------ claims about retries ------------------------ *)
\* the GetLanguages requests sent during the call
LanguageRequests ==
  {i \in 1 .. Len(net) : net[i].soap_action = "GetLanguages"}

\* C18: one call of translate sends at most one translation request (and at
\* most one request for the languages), and a request that failed is the
\* last one of the call. One read of access_token sends at most one
\* authentication request: only the evaluation of its condition sends one,
\* the caller then waits, fails or installs, and reads again only in a new
\* call; the step in which the authentication fails sends nothing.
C18_NoRetry ==
  /\ [](tpc = "done" =>
          /\ Cardinality(TranslationRequests) <= 1
          /\ Cardinality(LanguageRequests) <= 1
          /\ path = "languages failed" =>
               (Len(net) = 1 /\ TranslationRequests = {})
          /\ path = "failed" => TranslationRequests = {Len(net)})
  /\ [][\A t \in SeqThreads :
          /\ authCount' \in {authCount, authCount + 1}
          /\ authCount' # authCount => (pc[t] = "read" /\ pc'[t] = "wait")
          /\ pc[t] \in {"wait", "expiry"} => pc'[t] # "read"
          /\ (pc[t] = "wait" /\ pc'[t] = "idle") =>
               (res'[t] \in AuthFailures /\ authCount' = authCount)]_vars

\* the translation request got no answer: it was the only one of the call
C18_Witness ==
  /\ tpc = "done" /\ path = "failed" /\ srv.trans.kind = "raise"
  /\ Cardinality(TranslationRequests) = 1
  /\ result.status = "raise"

(* ----------------- claims about the expiry of the token --------------- *)
\* C19: between the calls of one caller, a token is held only together with
\* an expiry, so that is_token_expired never compares None with an instant
\* (no read ends in TypeError); and the expiry, once set, is never taken away
\* and never decreases.
C19_ExpiryWithToken ==
  /\ [](\A t \in SeqThreads :
          /\ (pc[t] \in {"idle", "read"} /\ _access_token # None) =>
                _token_expiry # None
          /\ res[t] # "TypeError")
  /\ [][_token_expiry # None =>
          /\ _token_expiry' # None
          /\ Val(_token_expiry') >= Val(_token_expiry)]_vars

\* one authentication failed, and a read that found the token expired has
\* installed a new one with a later expiry
C19_Witness ==
  /\ pc[1] = "idle" /\ res[1] = "sent" /\ authCount = 3
  /\ lastSeen[1] # None /\ lastSeen[2] # None /\ _token_expiry # None
  /\ Val(_token_expiry) > Val(lastSeen[2])

====
